---- MODULE Spec2Model ----
(***************************************************************************)
(* Model of the SWCClient SDK (my_swcpy/swc_client.py): the constructor,   *)
(* the call layer call_api, the seven endpoint methods and the five bulk   *)
(* file methods.  Every method is synchronous and performs one blocking   *)
(* HTTP GET, so each method is one action; the reply of the network and    *)
(* the server is the nondeterministic input of the action.                 *)
(***************************************************************************)
EXTENDS Integers, Sequences, FiniteSets, TLC

VARIABLES input_config, phase, self, built, call

vars == <<input_config, phase, self, built, call>>

(***************************************************************************)
(* Bounds                                                                  *)
(***************************************************************************)
\* longest JSON array a response body carries
MaxLen == 2

(***************************************************************************)
(* Python / JSON values, tagged by their type                              *)
(***************************************************************************)
NoneVal == [tag |-> "None"]

IntVal(n) == [tag |-> "int", v |-> n]

StrVal(s) == [tag |-> "str", v |-> s]

ObjVal(f) == [tag |-> "object", v |-> f]

ArrVal(items) == [tag |-> "array", v |-> items]

\* a Python dict argument: its items in insertion order
DictVal(items) == [tag |-> "dict", v |-> items]

(***************************************************************************)
(* Class constants                                                         *)
(***************************************************************************)
HEALTH_CHECK_ENDPOINT == "/"

LIST_LEAGUES_ENDPOINT == "/v0/leagues/"

LIST_PLAYERS_ENDPOINT == "/v0/players/"

LIST_PERFORMANCES_ENDPOINT == "/v0/performances/"

LIST_TEAMS_ENDPOINT == "/v0/teams/"

GET_COUNTS_ENDPOINT == "/v0/counts/"

BULK_FILE_BASE_URL == "https://raw.githubusercontent.com/christinesalim/api_portfolio_project/main/bulk/"

BulkKeys == {"players", "leagues", "performances", "teams", "team_players"}

\* the mapping assigned first in the constructor, before the extension is added
BULK_FILE_NAMES == [players |-> "player_data", leagues |-> "league_data", performances |-> "performance_data", teams |-> "team_data", team_players |-> "team_player_data"]

(***************************************************************************)
(* str.lower()                                                             *)
(***************************************************************************)
UpperToLower == [A |-> "a", B |-> "b", C |-> "c", D |-> "d", E |-> "e", F |-> "f", G |-> "g", H |-> "h", I |-> "i", J |-> "j", K |-> "k", L |-> "l", M |-> "m", N |-> "n", O |-> "o", P |-> "p", Q |-> "q", R |-> "r", S |-> "s", T |-> "t", U |-> "u", V |-> "v", W |-> "w", X |-> "x", Y |-> "y", Z |-> "z"]

LowerChar(c) == IF c \in DOMAIN UpperToLower THEN UpperToLower[c] ELSE c

RECURSIVE lower(_)
lower(s) == IF Len(s) = 0 THEN s ELSE LowerChar(SubSeq(s, 1, 1)) \o lower(SubSeq(s, 2, Len(s)))

(***************************************************************************)
(* Configuration handed to the constructor                                 *)
(***************************************************************************)
BaseUrls == {"http://0.0.0.0:8000"}

BackoffMaxTimes == {30}

BulkFormats == {"csv", "parquet", "Parquet"}

Configs == [swc_base_url : BaseUrls, swc_backoff : BOOLEAN, swc_backoff_max : BackoffMaxTimes, swc_bulk_file_format : BulkFormats]

NoClient == [tag |-> "None"]

NoCall == [state |-> "none"]

(***************************************************************************)
(* SWCClient.__init__                                                      *)
(***************************************************************************)
\* the constructor without lower(): "Parquet" would get the .csv names
BulkFileNamesCaseSensitive(bulk_file_format) ==
    IF bulk_file_format = "parquet"
    THEN [key \in BulkKeys |-> BULK_FILE_NAMES[key] \o ".parquet"]
    ELSE [key \in BulkKeys |-> BULK_FILE_NAMES[key] \o ".csv"]

\* lines 65-72: the extension every bulk file name gets
BulkFileNames(bulk_file_format) ==
    IF lower(bulk_file_format) = "parquet"
    THEN [key \in BulkKeys |-> BULK_FILE_NAMES[key] \o ".parquet"]
    ELSE [key \in BulkKeys |-> BULK_FILE_NAMES[key] \o ".csv"]

\* the attributes the constructor has assigned when line 57 is reached
SelfAttrs == {"swc_base_url", "backoff", "backoff_max_time", "bulk_file_format", "BULK_FILE_NAMES"}

\* the attribute line 61 reads to configure the retry decorator
BackoffMaxTimeAttr == "swc_backoff_max_time"

\* lines 57-63: with backoff on, the decorator arguments are evaluated first;
\* reading an attribute that was never assigned raises AttributeError and
\* the constructor does not complete
ConstructorRaises(cfg) == cfg.swc_backoff /\ BackoffMaxTimeAttr \notin SelfAttrs

NewSelf(cfg) ==
    [swc_base_url |-> cfg.swc_base_url,
     backoff |-> cfg.swc_backoff,
     backoff_max_time |-> cfg.swc_backoff_max,
     bulk_file_format |-> cfg.swc_bulk_file_format,
     BULK_FILE_NAMES |-> BulkFileNames(cfg.swc_bulk_file_format)]

Construct ==
    /\ phase = "new"
    /\ IF ConstructorRaises(input_config)
       THEN /\ phase' = "ctor_raised"
            /\ self' = NoClient
            /\ built' = NoClient
       ELSE /\ phase' = "ready"
            /\ self' = NewSelf(input_config)
            /\ built' = NewSelf(input_config)
    /\ UNCHANGED <<input_config, call>>

(***************************************************************************)
(* The network and the server: what one HTTP GET can come back with        *)
(***************************************************************************)
Statuses == {200, 201, 404}

LeagueIds == {12, 5002}

PlayerIds == {12, 1001}

LeagueObj(id) == ObjVal([league_id |-> IntVal(id), league_name |-> StrVal("Pigskin Prodigal Fantasy League")])

PlayerObj(id) == ObjVal([player_id |-> IntVal(id), first_name |-> StrVal("Bryce")])

TeamObj == ObjVal([team_id |-> IntVal(1), league_id |-> IntVal(12), team_name |-> StrVal("Gridiron Gurus")])

PerformanceObj == ObjVal([performance_id |-> IntVal(7), player_id |-> IntVal(12), week_number |-> StrVal("202401")])

CountsObj == ObjVal([league_count |-> IntVal(5), team_count |-> IntVal(20), player_count |-> IntVal(1018)])

\* a league whose identifier is mistyped
BadLeagueObj == ObjVal([league_id |-> StrVal("x"), league_name |-> StrVal("y")])

\* the body FastAPI sends with an error status
DetailObj == ObjVal([detail |-> StrVal("Not Found")])

HealthObj == ObjVal([message |-> StrVal("API health check successful")])

\* what a JSON array of a response may hold
Elements == {LeagueObj(12), LeagueObj(5002), TeamObj, PerformanceObj, BadLeagueObj, IntVal(3)}

Objects == {LeagueObj(id) : id \in LeagueIds} \cup {PlayerObj(id) : id \in PlayerIds} \cup {TeamObj, PerformanceObj, CountsObj, BadLeagueObj, DetailObj, HealthObj}

SeqsUpTo(S, n) == UNION {[1..k -> S] : k \in 0..n}

Arrays == {ArrVal(items) : items \in SeqsUpTo(Elements, MaxLen)}

\* a body that is not JSON
TextBody == [tag |-> "text", v |-> "OK"]

Bodies == Arrays \cup Objects \cup {TextBody}

\* httpx.RequestError: no response was received
NetError == [kind |-> "error"]

Response(status_code, body) == [kind |-> "response", status_code |-> status_code, content |-> body]

NetOutcomes == {NetError} \cup {Response(st, b) : st \in Statuses, b \in Bodies}

(***************************************************************************)
(* Results of a call                                                       *)
(***************************************************************************)
Return(value) == [kind |-> "return", value |-> value]

Raise(error) == [kind |-> "raise", error |-> error]

ListVal(items) == [tag |-> "list", v |-> items]

(***************************************************************************)
(* schemas.py: the typed records                                           *)
(***************************************************************************)
Schema == [League |-> [league_id |-> "int", league_name |-> "str"],
           Team |-> [team_id |-> "int", league_id |-> "int", team_name |-> "str"],
           Player |-> [player_id |-> "int", first_name |-> "str"],
           Performance |-> [performance_id |-> "int", player_id |-> "int", week_number |-> "str"],
           Counts |-> [league_count |-> "int", team_count |-> "int", player_count |-> "int"]]

\* required fields present and correctly typed
Validates(T, f) == \A k \in DOMAIN Schema[T] : k \in DOMAIN f /\ f[k].tag = Schema[T][k]

TypedRecord(T, f) == [type |-> T, v |-> [k \in DOMAIN Schema[T] |-> f[k]]]

\* T(**value): a value that is not a mapping cannot be unpacked
NewRecord(T, value) ==
    IF value.tag # "object" THEN Raise("TypeError")
    ELSE IF Validates(T, value.v) THEN Return(TypedRecord(T, value.v))
    ELSE Raise("ValidationError")

\* a comprehension that drops the elements that do not validate
RECURSIVE ComprehensionSkipInvalid(_, _)
ComprehensionSkipInvalid(T, items) ==
    IF items = <<>> THEN Return(ListVal(<<>>))
    ELSE LET h == NewRecord(T, Head(items))
             t == ComprehensionSkipInvalid(T, Tail(items))
         IN IF h.kind = "raise" THEN t
            ELSE Return(ListVal(<<h.value>> \o t.value.v))

\* [T(**x) for x in items]: in order, the first failure ends the comprehension
RECURSIVE Comprehension(_, _)
Comprehension(T, items) ==
    IF items = <<>> THEN Return(ListVal(<<>>))
    ELSE LET h == NewRecord(T, Head(items))
             t == Comprehension(T, Tail(items))
         IN IF h.kind = "raise" THEN h
            ELSE IF t.kind = "raise" THEN t
            ELSE Return(ListVal(<<h.value>> \o t.value.v))

\* [T(**x) for x in response.json()]: iterating a JSON object yields its keys,
\* strings, which cannot be unpacked
ListOf(T, body) ==
    IF body.tag = "array" THEN Comprehension(T, body.v)
    ELSE IF body.tag = "object" /\ DOMAIN body.v = {} THEN Return(ListVal(<<>>))
    ELSE Raise("TypeError")

(***************************************************************************)
(* SWCClient.call_api                                                      *)
(***************************************************************************)
\* Python truth value
Truthy(x) ==
    CASE x.tag = "None" -> FALSE
      [] x.tag = "int" -> x.v # 0
      [] x.tag = "str" -> x.v # ""
      [] x.tag = "dict" -> x.v # <<>>

\* a filter on the truth value instead of on None: skip=0 would be lost
SanitizeByTruth(api_params) ==
    IF Truthy(api_params)
    THEN DictVal(SelectSeq(api_params.v, LAMBDA item : Truthy(item[2])))
    ELSE api_params

\* lines 89-90
Sanitize(api_params) ==
    IF Truthy(api_params)
    THEN DictVal(SelectSeq(api_params.v, LAMBDA item : item[2] # NoneVal))
    ELSE api_params

\* httpx: how a parameter value is written into the query string
primitive_value_to_str(x) ==
    CASE x.tag = "None" -> ""
      [] x.tag = "int" -> ToString(x.v)
      [] x.tag = "str" -> x.v

\* httpx: the query of a request, one (key, text) pair per parameter
QueryParams(api_params) ==
    IF api_params.tag = "dict"
    THEN [i \in 1..Len(api_params.v) |-> <<api_params.v[i][1], primitive_value_to_str(api_params.v[i][2])>>]
    ELSE <<>>

Request(url, params) == [method |-> "GET", url |-> url, params |-> params]

\* response.json()
json(response) == IF response.content.tag = "text" THEN Raise("JSONDecodeError") ELSE Return(response.content)

\* lines 92-105: one GET; client.get never raises HTTPStatusError (nothing calls
\* raise_for_status), the f-string of line 97 decodes the body before the
\* response is returned, and RequestError is logged and re-raised
call_api(self_, api_endpoint, api_params, net) ==
    [requests |-> <<Request(self_.swc_base_url \o api_endpoint, QueryParams(Sanitize(api_params)))>>,
     outcome |-> IF net.kind = "error" THEN Raise("RequestError")
                 ELSE IF json(net).kind = "raise" THEN json(net)
                 ELSE Return(net)]

(***************************************************************************)
(* Endpoint methods                                                        *)
(***************************************************************************)
get_health_check(self_, net) == call_api(self_, HEALTH_CHECK_ENDPOINT, NoneVal, net)

\* the body of a list method after its parameters are assembled
ListMethod(self_, endpoint, T, params, net) ==
    LET r == call_api(self_, endpoint, params, net)
    IN IF r.outcome.kind = "raise" THEN r
       ELSE [requests |-> r.requests, outcome |-> ListOf(T, json(r.outcome.value).value)]

\* the body of a single-item method after its endpoint is built
ItemMethod(self_, endpoint, T, net) ==
    LET r == call_api(self_, endpoint, NoneVal, net)
    IN IF r.outcome.kind = "raise" THEN r
       ELSE [requests |-> r.requests, outcome |-> NewRecord(T, json(r.outcome.value).value)]

list_leagues(self_, skip, limit, minimum_last_changed_date, league_name, net) ==
    ListMethod(self_, LIST_LEAGUES_ENDPOINT, "League",
               DictVal(<< <<"skip", skip>>, <<"limit", limit>>,
                          <<"minimum_last_changed_date", minimum_last_changed_date>>,
                          <<"league_name", league_name>> >>), net)

\* a method that asks for the league again when its record does not validate
get_league_by_id_retrying(self_, league_id, net) ==
    LET r == ItemMethod(self_, LIST_LEAGUES_ENDPOINT \o ToString(league_id), "League", net)
    IN IF r.outcome = Raise("ValidationError")
       THEN [requests |-> r.requests \o r.requests, outcome |-> r.outcome]
       ELSE r

\* a method that builds its path from the players endpoint
get_league_by_id_wrong_path(self_, league_id, net) ==
    ItemMethod(self_, LIST_PLAYERS_ENDPOINT \o ToString(league_id), "League", net)

get_league_by_id(self_, league_id, net) ==
    ItemMethod(self_, LIST_LEAGUES_ENDPOINT \o ToString(league_id), "League", net)

get_counts(self_, net) == ItemMethod(self_, GET_COUNTS_ENDPOINT, "Counts", net)

list_teams(self_, skip, limit, minimum_last_changed_date, team_name, league_id, net) ==
    ListMethod(self_, LIST_TEAMS_ENDPOINT, "Team",
               DictVal(<< <<"skip", skip>>, <<"limit", limit>>,
                          <<"minimum_last_changed_date", minimum_last_changed_date>>,
                          <<"team_name", team_name>>,
                          <<"league_id", league_id>> >>), net)

get_player_by_id(self_, playter_id, net) ==
    ItemMethod(self_, LIST_PLAYERS_ENDPOINT \o ToString(playter_id), "Player", net)

list_performances(self_, skip, limit, minimum_last_changed_date, net) ==
    ListMethod(self_, LIST_PERFORMANCES_ENDPOINT, "Performance",
               DictVal(<< <<"skip", skip>>, <<"limit", limit>>,
                          <<"minimum_last_changed_date", minimum_last_changed_date>> >>), net)

(***************************************************************************)
(* Bulk file methods                                                       *)
(***************************************************************************)
\* a method that hands out the body of every successful (2xx) response
BulkResultAnySuccess(response) ==
    IF response.status_code >= 200 /\ response.status_code < 300
    THEN Return(response.content)
    ELSE Return(NoneVal)

\* the body on 200; otherwise the method falls off its end and returns None
BulkResult(response) ==
    IF response.status_code = 200 THEN Return(response.content) ELSE Return(NoneVal)

\* httpx.get(path, follow_redirects=True): no call layer, no retry
BulkDownload(self_, key, net) ==
    [requests |-> <<Request(BULK_FILE_BASE_URL \o self_.BULK_FILE_NAMES[key], <<>>)>>,
     outcome |-> IF net.kind = "error" THEN Raise("RequestError") ELSE BulkResult(net)]

get_bulk_player_file(self_, net) == BulkDownload(self_, "players", net)

get_bulk_league_file(self_, net) == BulkDownload(self_, "leagues", net)

get_bulk_performance_file(self_, net) == BulkDownload(self_, "performances", net)

get_bulk_team_file(self_, net) == BulkDownload(self_, "teams", net)

get_bulk_team_player_file(self_, net) == BulkDownload(self_, "team_players", net)

(***************************************************************************)
(* Arguments the caller passes                                             *)
(***************************************************************************)
Skips == {IntVal(0), IntVal(1)}

Limits == {IntVal(100)}

Dates == {NoneVal, StrVal("2024-04-01")}

Names == {NoneVal, StrVal("Pigskin")}

LeagueFilters == {NoneVal, IntVal(12)}

Ids == {0, 12, 1001, 5002}

NoArgs == <<>>

ListLeaguesArgs == {<< <<"skip", skip>>, <<"limit", limit>>, <<"minimum_last_changed_date", date>>, <<"league_name", name>> >> : skip \in Skips, limit \in Limits, date \in Dates, name \in Names}

ListTeamsArgs == {<< <<"skip", skip>>, <<"limit", limit>>, <<"minimum_last_changed_date", date>>, <<"team_name", name>>, <<"league_id", league_id>> >> : skip \in Skips, limit \in Limits, date \in Dates, name \in Names, league_id \in LeagueFilters}

ListPerformancesArgs == {<< <<"skip", skip>>, <<"limit", limit>>, <<"minimum_last_changed_date", date>> >> : skip \in Skips, limit \in Limits, date \in Dates}

BulkMethods == {"get_bulk_player_file", "get_bulk_league_file", "get_bulk_performance_file", "get_bulk_team_file", "get_bulk_team_player_file"}

ListMethods == {"list_leagues", "list_teams", "list_performances"}

ItemMethods == {"get_league_by_id", "get_player_by_id", "get_counts"}

Methods == {"get_health_check"} \cup ListMethods \cup ItemMethods \cup BulkMethods

ArgsOf(method) ==
    CASE method = "list_leagues" -> ListLeaguesArgs
      [] method = "list_teams" -> ListTeamsArgs
      [] method = "list_performances" -> ListPerformancesArgs
      [] method = "get_league_by_id" -> {<< <<"league_id", IntVal(id)>> >> : id \in Ids}
      [] method = "get_player_by_id" -> {<< <<"playter_id", IntVal(id)>> >> : id \in Ids}
      [] OTHER -> {NoArgs}

\* the value of the argument called name
Arg(args, name) == args[CHOOSE i \in 1..Len(args) : args[i][1] = name][2]

(***************************************************************************)
(* The calls.  The caller invokes one method at a time (Invoke); the       *)
(* method then runs to completion against whatever the network answers,    *)
(* one action per public method.  call is the record of the last method    *)
(* call: its arguments, the reply of the network, the requests the method  *)
(* sent and what it handed back to the caller.                             *)
(***************************************************************************)
Invoke ==
    /\ phase = "ready"
    /\ call.state # "invoked"
    /\ \E method \in Methods : \E args \in ArgsOf(method) :
         call' = [state |-> "invoked", method |-> method, args |-> args]
    /\ UNCHANGED <<input_config, phase, self, built>>

Invoked(method) == call.state = "invoked" /\ call.method = method

CallRecord(method, args, net, r) ==
    [state |-> "done", method |-> method, args |-> args, net |-> net, requests |-> r.requests, outcome |-> r.outcome]

GetHealthCheck ==
    /\ phase = "ready"
    /\ Invoked("get_health_check")
    /\ \E net \in NetOutcomes :
         call' = CallRecord("get_health_check", call.args, net, get_health_check(self, net))
    /\ UNCHANGED <<input_config, phase, self, built>>

ListLeagues ==
    /\ phase = "ready"
    /\ Invoked("list_leagues")
    /\ \E net \in NetOutcomes :
         call' = CallRecord("list_leagues", call.args, net, list_leagues(self, Arg(call.args, "skip"), Arg(call.args, "limit"), Arg(call.args, "minimum_last_changed_date"), Arg(call.args, "league_name"), net))
    /\ UNCHANGED <<input_config, phase, self, built>>

GetLeagueById ==
    /\ phase = "ready"
    /\ Invoked("get_league_by_id")
    /\ \E net \in NetOutcomes :
         call' = CallRecord("get_league_by_id", call.args, net, get_league_by_id(self, Arg(call.args, "league_id").v, net))
    /\ UNCHANGED <<input_config, phase, self, built>>

GetCounts ==
    /\ phase = "ready"
    /\ Invoked("get_counts")
    /\ \E net \in NetOutcomes :
         call' = CallRecord("get_counts", call.args, net, get_counts(self, net))
    /\ UNCHANGED <<input_config, phase, self, built>>

ListTeams ==
    /\ phase = "ready"
    /\ Invoked("list_teams")
    /\ \E net \in NetOutcomes :
         call' = CallRecord("list_teams", call.args, net, list_teams(self, Arg(call.args, "skip"), Arg(call.args, "limit"), Arg(call.args, "minimum_last_changed_date"), Arg(call.args, "team_name"), Arg(call.args, "league_id"), net))
    /\ UNCHANGED <<input_config, phase, self, built>>

GetPlayerById ==
    /\ phase = "ready"
    /\ Invoked("get_player_by_id")
    /\ \E net \in NetOutcomes :
         call' = CallRecord("get_player_by_id", call.args, net, get_player_by_id(self, Arg(call.args, "playter_id").v, net))
    /\ UNCHANGED <<input_config, phase, self, built>>

ListPerformances ==
    /\ phase = "ready"
    /\ Invoked("list_performances")
    /\ \E net \in NetOutcomes :
         call' = CallRecord("list_performances", call.args, net, list_performances(self, Arg(call.args, "skip"), Arg(call.args, "limit"), Arg(call.args, "minimum_last_changed_date"), net))
    /\ UNCHANGED <<input_config, phase, self, built>>

GetBulkPlayerFile ==
    /\ phase = "ready"
    /\ Invoked("get_bulk_player_file")
    /\ \E net \in NetOutcomes :
         call' = CallRecord("get_bulk_player_file", call.args, net, get_bulk_player_file(self, net))
    /\ UNCHANGED <<input_config, phase, self, built>>

GetBulkLeagueFile ==
    /\ phase = "ready"
    /\ Invoked("get_bulk_league_file")
    /\ \E net \in NetOutcomes :
         call' = CallRecord("get_bulk_league_file", call.args, net, get_bulk_league_file(self, net))
    /\ UNCHANGED <<input_config, phase, self, built>>

GetBulkPerformanceFile ==
    /\ phase = "ready"
    /\ Invoked("get_bulk_performance_file")
    /\ \E net \in NetOutcomes :
         call' = CallRecord("get_bulk_performance_file", call.args, net, get_bulk_performance_file(self, net))
    /\ UNCHANGED <<input_config, phase, self, built>>

GetBulkTeamFile ==
    /\ phase = "ready"
    /\ Invoked("get_bulk_team_file")
    /\ \E net \in NetOutcomes :
         call' = CallRecord("get_bulk_team_file", call.args, net, get_bulk_team_file(self, net))
    /\ UNCHANGED <<input_config, phase, self, built>>

GetBulkTeamPlayerFile ==
    /\ phase = "ready"
    /\ Invoked("get_bulk_team_player_file")
    /\ \E net \in NetOutcomes :
         call' = CallRecord("get_bulk_team_player_file", call.args, net, get_bulk_team_player_file(self, net))
    /\ UNCHANGED <<input_config, phase, self, built>>

Init ==
    /\ input_config \in Configs
    /\ phase = "new"
    /\ self = NoClient
    /\ built = NoClient
    /\ call = NoCall

Next ==
    \/ Construct
    \/ Invoke
    \/ GetHealthCheck
    \/ ListLeagues
    \/ GetLeagueById
    \/ GetCounts
    \/ ListTeams
    \/ GetPlayerById
    \/ ListPerformances
    \/ GetBulkPlayerFile
    \/ GetBulkLeagueFile
    \/ GetBulkPerformanceFile
    \/ GetBulkTeamFile
    \/ GetBulkTeamPlayerFile

Spec == Init /\ [][Next]_vars

(***************************************************************************)
(* The API server, as the SDK's tests expect it to answer the two          *)
(* single-item routes                                                      *)
(***************************************************************************)
DigitChars == <<"0", "1", "2", "3", "4", "5", "6", "7", "8", "9">>

IsDigit(c) == \E d \in 1..Len(DigitChars) : DigitChars[d] = c

DigitValue(c) == (CHOOSE d \in 1..Len(DigitChars) : DigitChars[d] = c) - 1

AllDigits(s) == Len(s) > 0 /\ \A i \in 1..Len(s) : IsDigit(SubSeq(s, i, i))

RECURSIVE ParseInt(_)
ParseInt(s) == IF Len(s) = 0 THEN 0 ELSE 10 * ParseInt(SubSeq(s, 1, Len(s) - 1)) + DigitValue(SubSeq(s, Len(s), Len(s)))

HasPrefix(s, p) == Len(s) >= Len(p) /\ SubSeq(s, 1, Len(p)) = p

EndsWith(s, suffix) == Len(s) >= Len(suffix) /\ SubSeq(s, Len(s) - Len(suffix) + 1, Len(s)) = suffix

StripPrefix(s, p) == SubSeq(s, Len(p) + 1, Len(s))

\* GET /v0/leagues/{league_id} and GET /v0/players/{player_id}
ServerReply(base_url, request) ==
    LET path == IF HasPrefix(request.url, base_url) THEN StripPrefix(request.url, base_url) ELSE ""
        leagueKey == IF HasPrefix(path, "/v0/leagues/") THEN StripPrefix(path, "/v0/leagues/") ELSE ""
        playerKey == IF HasPrefix(path, "/v0/players/") THEN StripPrefix(path, "/v0/players/") ELSE ""
    IN IF AllDigits(leagueKey) /\ ParseInt(leagueKey) \in LeagueIds
       THEN Response(200, LeagueObj(ParseInt(leagueKey)))
       ELSE IF AllDigits(playerKey) /\ ParseInt(playerKey) \in PlayerIds
       THEN Response(200, PlayerObj(ParseInt(playerKey)))
       ELSE Response(404, DetailObj)

(***************************************************************************)
(* Vocabulary of the properties                                            *)
(***************************************************************************)
Done == phase = "ready" /\ call.state = "done"

\* the call went through call_api
ViaCallApi == Done /\ call.method \notin BulkMethods

GotResponse == call.net.kind = "response"

\* the attempt failed: no response, or a response with an error status
ErrorStatus == GotResponse /\ call.net.status_code >= 400

AttemptFailed == call.net.kind = "error" \/ ErrorStatus

RecordTypeOf(method) ==
    CASE method = "list_leagues" -> "League"
      [] method = "get_league_by_id" -> "League"
      [] method = "list_teams" -> "Team"
      [] method = "get_player_by_id" -> "Player"
      [] method = "list_performances" -> "Performance"
      [] method = "get_counts" -> "Counts"

\* the JSON value x is a mapping with every required field of T, correctly typed
IsValid(T, x) == x.tag = "object" /\ \A k \in DOMAIN Schema[T] : k \in DOMAIN x.v /\ x.v[k].tag = Schema[T][k]

\* rec is the typed record of the JSON value x
IsRecordOf(T, rec, x) == rec.type = T /\ \A k \in DOMAIN Schema[T] : rec.v[k] = x.v[k]

(***************************************************************************)
(* C1: with backoff enabled in the configuration the client can be         *)
(* constructed, and a call through call_api is re-attempted after every    *)
(* failed attempt until an attempt succeeds (its response is returned) or  *)
(* the time budget is exhausted (the last failure is raised).              *)
(***************************************************************************)
C1_BackoffClientRetries ==
    (input_config.swc_backoff /\ phase # "new") =>
        /\ phase = "ready"
        /\ self.backoff
        /\ ViaCallApi /\ call.method = "get_health_check" =>
              \/ call.outcome = Return(call.net) /\ ~AttemptFailed
              \/ call.outcome.kind = "raise" /\ AttemptFailed

(***************************************************************************)
(* C2: with backoff disabled a call through call_api sends exactly one     *)
(* GET; a failed attempt (no response, or an error status) is raised to    *)
(* the caller, and the response of a successful attempt is returned.       *)
(***************************************************************************)
C2_SingleAttemptRaisesOrReturns ==
    (ViaCallApi /\ ~self.backoff) =>
        /\ Len(call.requests) = 1
        /\ AttemptFailed => call.outcome.kind = "raise" /\ call.outcome.error \in {"RequestError", "HTTPStatusError"}
        /\ (~AttemptFailed /\ call.method = "get_health_check") => call.outcome = Return(call.net)

(***************************************************************************)
(* C3: a response with an HTTP error status is raised as a status error    *)
(* and a transport failure as a request error; a response with an error    *)
(* status is never handed on as a normal result.                           *)
(***************************************************************************)
C3_ErrorStatusIsRaised ==
    ViaCallApi =>
        /\ call.net.kind = "error" => call.outcome = Raise("RequestError")
        /\ ErrorStatus => call.outcome = Raise("HTTPStatusError")

(***************************************************************************)
(* C9: get_health_check returns the raw response for every response the    *)
(* server sends, whatever its status and body, a body that is not JSON     *)
(* included.                                                               *)
(***************************************************************************)
C9_HealthCheckReturnsRawResponse ==
    (Done /\ call.method = "get_health_check" /\ GotResponse) => call.outcome = Return(call.net)

(***************************************************************************)
(* C4: the query parameters on the wire are exactly the entries of the     *)
(* parameter mapping whose value is not None, in the mapping's order and   *)
(* with their values unchanged (skip=0 is sent as skip=0); a key whose     *)
(* value is None never appears in the request.                             *)
(***************************************************************************)
\* the text a query string carries for a value that is sent
TextOf(x) == IF x.tag = "int" THEN ToString(x.v) ELSE x.v

\* the entries of the mapping that carry a value
RECURSIVE Present(_)
Present(items) ==
    IF items = <<>> THEN <<>>
    ELSE IF Head(items)[2] = NoneVal THEN Present(Tail(items))
    ELSE << <<Head(items)[1], TextOf(Head(items)[2])>> >> \o Present(Tail(items))

C4_OnlyPresentParamsAreSent ==
    /\ (ViaCallApi /\ call.method \notin ListMethods) => call.requests[1].params = <<>>
    /\ (ViaCallApi /\ call.method \in ListMethods) =>
        LET sent == call.requests[1].params
        IN /\ sent = Present(call.args)
           /\ \A i \in 1..Len(call.args) :
                (call.args[i][2] = NoneVal) <=> (\A j \in 1..Len(sent) : sent[j][1] # call.args[i][1])
           /\ \A j \in 1..Len(sent) : sent[j][2] \notin {"None", "null", ""}

C4_Witness ==
    /\ ViaCallApi
    /\ call.method = "list_leagues"
    /\ Arg(call.args, "skip") = IntVal(0)
    /\ Arg(call.args, "league_name") = NoneVal
    /\ Arg(call.args, "minimum_last_changed_date") # NoneVal
    /\ call.requests[1].params = << <<"skip", "0">>, <<"limit", "100">>, <<"minimum_last_changed_date", "2024-04-01">> >>

(***************************************************************************)
(* C5: a list method that receives a JSON array returns a sequence of the  *)
(* same length and order, each element the validated record of the         *)
(* corresponding array element; if any element fails validation the call   *)
(* fails and no list is returned.                                          *)
(***************************************************************************)
C5_ListKeepsLengthAndOrder ==
    (ViaCallApi /\ call.method \in ListMethods /\ GotResponse /\ call.net.content.tag = "array") =>
        LET items == call.net.content.v
            T == RecordTypeOf(call.method)
        IN IF \A i \in 1..Len(items) : IsValid(T, items[i])
           THEN /\ call.outcome.kind = "return"
                /\ call.outcome.value.tag = "list"
                /\ Len(call.outcome.value.v) = Len(items)
                /\ \A i \in 1..Len(items) : IsRecordOf(T, call.outcome.value.v[i], items[i])
           ELSE call.outcome.kind = "raise"

C5_Witness ==
    /\ ViaCallApi
    /\ call.method = "list_leagues"
    /\ GotResponse
    /\ call.net.content = ArrVal(<<LeagueObj(5002), LeagueObj(12)>>)
    /\ call.outcome.kind = "return"
    /\ Len(call.outcome.value.v) = 2
    /\ call.outcome.value.v[1].v.league_id = IntVal(5002)
    /\ call.outcome.value.v[2].v.league_id = IntVal(12)

(***************************************************************************)
(* C6: for every id the server holds, get_league_by_id(id) requests        *)
(* /v0/leagues/{id} and returns one League whose league_id is id, and      *)
(* get_player_by_id(id) requests /v0/players/{id} and returns one Player   *)
(* whose player_id is id.                                                  *)
(***************************************************************************)
\* the network delivered what the server answers to the request that was sent
ServerAnswered == GotResponse /\ call.net = ServerReply(self.swc_base_url, call.requests[1])

C6_GetByIdReturnsThatRecord ==
    /\ (ViaCallApi /\ call.method = "get_league_by_id" /\ Arg(call.args, "league_id").v \in LeagueIds /\ ServerAnswered) =>
          /\ call.requests[1].url = self.swc_base_url \o "/v0/leagues/" \o ToString(Arg(call.args, "league_id").v)
          /\ call.outcome.kind = "return"
          /\ call.outcome.value.type = "League"
          /\ call.outcome.value.v.league_id = Arg(call.args, "league_id")
    /\ (ViaCallApi /\ call.method = "get_player_by_id" /\ Arg(call.args, "playter_id").v \in PlayerIds /\ ServerAnswered) =>
          /\ call.requests[1].url = self.swc_base_url \o "/v0/players/" \o ToString(Arg(call.args, "playter_id").v)
          /\ call.outcome.kind = "return"
          /\ call.outcome.value.type = "Player"
          /\ call.outcome.value.v.player_id = Arg(call.args, "playter_id")

C6_Witness ==
    /\ ViaCallApi
    /\ call.method = "get_league_by_id"
    /\ Arg(call.args, "league_id") = IntVal(5002)
    /\ ServerAnswered
    /\ call.requests[1].url = "http://0.0.0.0:8000/v0/leagues/5002"
    /\ call.outcome.kind = "return"
    /\ call.outcome.value.v.league_id = IntVal(5002)

(***************************************************************************)
(* C7: a bulk file method returns the body of a response with status 200   *)
(* and returns None, without raising, for a response with any other        *)
(* status.                                                                 *)
(***************************************************************************)
C7_BulkReturnsBodyOnlyOn200 ==
    (Done /\ call.method \in BulkMethods /\ GotResponse) =>
        IF call.net.status_code = 200
        THEN call.outcome = Return(call.net.content)
        ELSE call.outcome = Return(NoneVal)

C7_Witness ==
    /\ Done
    /\ call.method = "get_bulk_team_player_file"
    /\ GotResponse
    /\ call.net.status_code = 201
    /\ call.outcome = Return(NoneVal)

(***************************************************************************)
(* C8: a response body that fails validation into a typed record is raised *)
(* to the caller as an error that is neither a request error nor a status  *)
(* error, and no further request is sent after that response.              *)
(***************************************************************************)
\* the response cannot be mapped into the record(s) the method returns
DeserializationFails ==
    /\ GotResponse
    /\ LET body == call.net.content
           T == RecordTypeOf(call.method)
       IN \/ call.method \in ItemMethods /\ body.tag = "object" /\ ~IsValid(T, body)
          \/ call.method \in ListMethods /\ body.tag = "array" /\ \E i \in 1..Len(body.v) : ~IsValid(T, body.v[i])

C8_ValidationFailureIsNotRetried ==
    (ViaCallApi /\ call.method # "get_health_check" /\ DeserializationFails) =>
        /\ call.outcome.kind = "raise"
        /\ call.outcome.error \notin {"RequestError", "HTTPStatusError"}
        /\ Len(call.requests) = 1

C8_Witness ==
    /\ ViaCallApi
    /\ call.method = "get_league_by_id"
    /\ call.net = Response(200, BadLeagueObj)
    /\ call.outcome = Raise("ValidationError")
    /\ Len(call.requests) = 1

(***************************************************************************)
(* C10: after any sequence of method calls the configuration-derived state *)
(* of the client equals its value at the end of construction: the base     *)
(* URL, the backoff flag, the backoff max time and the bulk file format of *)
(* the configuration, and bulk file names that all end in .parquet when    *)
(* the configured format is parquet and in .csv otherwise.                 *)
(***************************************************************************)
ParquetSpellings == {"parquet", "Parquet", "PARQUET"}

ConfiguredExtension == IF input_config.swc_bulk_file_format \in ParquetSpellings THEN ".parquet" ELSE ".csv"

C10_CallsLeaveClientUnchanged ==
    Done =>
        /\ self = built
        /\ self.swc_base_url = input_config.swc_base_url
        /\ self.backoff = input_config.swc_backoff
        /\ self.backoff_max_time = input_config.swc_backoff_max
        /\ self.bulk_file_format = input_config.swc_bulk_file_format
        /\ DOMAIN self.BULK_FILE_NAMES = BulkKeys
        /\ \A key \in BulkKeys : EndsWith(self.BULK_FILE_NAMES[key], ConfiguredExtension)

C10_Witness ==
    /\ Done
    /\ call.method = "get_bulk_player_file"
    /\ call.outcome.kind = "raise"
    /\ input_config.swc_bulk_file_format = "Parquet"
    /\ self.BULK_FILE_NAMES["players"] = "player_data.parquet"
    /\ call.requests[1].url = BULK_FILE_BASE_URL \o "player_data.parquet"

====
